---- MODULE Spec2Model ----
(***************************************************************************)
(* Speaker-isolator API: the request pipeline of src/main.py               *)
(* (process_video_endpoint: validate, download, upload, transcribe with    *)
(* polling, create_speaker_segments, ZIP export) and of src/app.py         *)
(* (VideoProcessing.post: validate, process_video, base64 export with      *)
(* display names).  One request is followed from arrival to its response.  *)
(*                                                                         *)
(* Strings are sequences of tokens: the file name "speaker_A_segment_1" is *)
(* <<"speaker", "A", "segment", 1>>, the host "www.youtube.com" is         *)
(* <<"www", "youtube", "com">>.  Audio is a sequence of pieces, each a     *)
(* range of the source audio in milliseconds or a stretch of silence.      *)
(***************************************************************************)
EXTENDS Integers, Sequences, FiniteSets, TLC

VARIABLES
    variant,            \* which endpoint serves the request: "main" or "app"
    request,            \* the POST request
    pc,                 \* position of the handler
    stagesRun,          \* the pipeline stages started so far, in order
    failure,            \* the stage that raised, or "none"
    audio_len,          \* len(audio): duration of the downloaded audio, ms
    svc_status,         \* the transcription job's status at the service
    transcript_status,  \* transcript_data["status"] of the last poll
    transcript,         \* transcript["utterances"]
    speaker_segments,   \* speaker -> the speaker's concatenated track
    speakers_audio,     \* the (file name, audio) tuples handed to the export
    track_ms,           \* app.py: speaker -> duration of the track to chunk
    max_duration_ms,    \* app.py: the chunking limit in force
    response            \* the HTTP response

vars == <<variant, request, pc, stagesRun, failure, audio_len, svc_status,
          transcript_status, transcript, speaker_segments,
          speakers_audio, track_ms, max_duration_ms, response>>

----------------------------------------------------------------------------
(* Bounds of the model *)

MaxTick == 3
MaxUtterances == 2
MaxTrackUnits == 7
MaxLimitUnits == 3

(* Program constants *)

PAUSE_DURATION_MS == 500
API_KEY_LENGTH == 32
DEFAULT_MAX_DURATION_MS == 300000

----------------------------------------------------------------------------
(* Helpers *)

Min(a, b) == IF a <= b THEN a ELSE b
Max(a, b) == IF a >= b THEN a ELSE b

RECURSIVE SumSeq(_)
SumSeq(s) == IF s = <<>> THEN 0 ELSE Head(s) + SumSeq(Tail(s))

RECURSIVE Flatten(_)
Flatten(ss) == IF ss = <<>> THEN <<>> ELSE Head(ss) \o Flatten(Tail(ss))

Speakers == {"A", "B"}
TimePoints == {i * PAUSE_DURATION_MS : i \in 0..MaxTick}

\* What the transcription service can return: utterances with start < end.
Utterances ==
    {u \in [speaker : Speakers, start : TimePoints, end : TimePoints] :
        u.start < u.end}

Transcripts == UNION {[1..n -> Utterances] : n \in 0..MaxUtterances}

\* The audio either spans every utterance or ends one tick early.
AudioLengths == {(MaxTick - 1) * PAUSE_DURATION_MS, MaxTick * PAUSE_DURATION_MS}

----------------------------------------------------------------------------
(* Audio: pydub AudioSegment values as sequences of pieces *)

AudioPiece(from, to) == [kind |-> "audio", from |-> from, to |-> to]

\* AudioSegment.silent(duration=d)
Silent(d) == [kind |-> "pause", from |-> 0, to |-> d]

PieceDuration(p) == p.to - p.from

RECURSIVE Duration(_)
Duration(track) ==
    IF track = <<>> THEN 0
    ELSE PieceDuration(Head(track)) + Duration(Tail(track))

\* audio[start:end]: pydub limits both ends to len(audio); an inverted
\* range is empty.
Slice(len, start, end) ==
    LET s == Min(start, len)
        e == Min(end, len)
    IN  IF s <= e THEN AudioPiece(s, e) ELSE AudioPiece(s, s)

----------------------------------------------------------------------------
(* create_speaker_segments *)

\* The rightmost source time already present in a track (0 when none).
RECURSIVE LastEnd(_)
LastEnd(track) ==
    IF track = <<>> THEN 0
    ELSE LET p == Head(track)
         IN  IF p.kind = "audio" THEN Max(p.to, LastEnd(Tail(track)))
             ELSE LastEnd(Tail(track))

\* Variant of the loop body that clamps the start to the speaker's last end
\* and inserts no pause.
AppendUtteranceClamped(segs, u, len) ==
    IF u.speaker \notin DOMAIN segs
    THEN segs @@ (u.speaker :> <<Slice(len, u.start, u.end)>>)
    ELSE LET last == LastEnd(segs[u.speaker])
         IN  [segs EXCEPT ![u.speaker] =
                 @ \o <<Slice(len, Max(u.start, last), Max(u.end, Max(u.start, last)))>>]

\* Variant of the loop body that puts a pause before every segment.
AppendUtterancePauseFirst(segs, u, len) ==
    IF u.speaker \notin DOMAIN segs
    THEN segs @@ (u.speaker :> <<Silent(PAUSE_DURATION_MS), Slice(len, u.start, u.end)>>)
    ELSE [segs EXCEPT ![u.speaker] =
             @ \o <<Silent(PAUSE_DURATION_MS), Slice(len, u.start, u.end)>>]

\* One iteration of the loop over transcript["utterances"], on the
\* speaker_segments dictionary.
AppendUtterance(segs, u, len) ==
    LET segment == Slice(len, u.start, u.end)
    IN  IF u.speaker \notin DOMAIN segs
        THEN segs @@ (u.speaker :> <<segment>>)
        ELSE [segs EXCEPT ![u.speaker] =
                 @ \o <<Silent(PAUSE_DURATION_MS), segment>>]

\* The same iteration on the speaker_individual_segments dictionary.
AppendIndividual(inds, u, len) ==
    LET segment == Slice(len, u.start, u.end)
    IN  IF u.speaker \notin DOMAIN inds
        THEN inds @@ (u.speaker :> <<segment>>)
        ELSE [inds EXCEPT ![u.speaker] = Append(@, segment)]

EmptyDict == [x \in {} |-> <<>>]

\* speaker_segments after the first k utterances, in arrival order.
RECURSIVE SpeakerSegments(_, _, _)
SpeakerSegments(utts, len, k) ==
    IF k = 0 THEN EmptyDict
    ELSE AppendUtterance(SpeakerSegments(utts, len, k - 1), utts[k], len)

RECURSIVE SpeakerIndividualSegments(_, _, _)
SpeakerIndividualSegments(utts, len, k) ==
    IF k = 0 THEN EmptyDict
    ELSE AppendIndividual(SpeakerIndividualSegments(utts, len, k - 1), utts[k], len)

\* Dictionary iteration order: speakers in order of first appearance.
RECURSIVE SpeakerOrder(_)
SpeakerOrder(utts) ==
    IF utts = <<>> THEN <<>>
    ELSE LET n == Len(utts)
             before == SpeakerOrder(SubSeq(utts, 1, n - 1))
         IN  IF \E i \in 1..(n - 1) : utts[i].speaker = utts[n].speaker
             THEN before
             ELSE Append(before, utts[n].speaker)

File(name, audio) == [name |-> name, audio |-> audio]

\* output_files: one track per speaker, then every individual segment,
\* numbered from 1 within its speaker.
OutputFiles(utts, len) ==
    LET segs == SpeakerSegments(utts, len, Len(utts))
        inds == SpeakerIndividualSegments(utts, len, Len(utts))
        order == SpeakerOrder(utts)
        tracks == [j \in 1..Len(order) |->
                      File(<<"speaker", order[j]>>, segs[order[j]])]
        parts == [j \in 1..Len(order) |->
                      [i \in 1..Len(inds[order[j]]) |->
                          File(<<"speaker", order[j], "segment", i>>,
                               <<inds[order[j]][i]>>)]]
    IN  tracks \o Flatten(parts)

----------------------------------------------------------------------------
(* process_video of app.py's main module: chunking of the speaker tracks *)

ChunkUnit == DEFAULT_MAX_DURATION_MS \div 3
TrackDurations == {k * ChunkUnit : k \in 0..MaxTrackUnits}
Limits == {k * ChunkUnit : k \in 1..MaxLimitUnits}

\* Variant of the chunker that gives every window the full length.
ChunkUnclamped(speaker, duration, limit) ==
    [i \in 1..((duration + limit - 1) \div limit) |->
        [speaker |-> speaker, part_index |-> i,
         from |-> (i - 1) * limit, to |-> i * limit]]

\* Window i (0-based) covers [i*limit, min((i+1)*limit, duration)) and is
\* surfaced with the 1-based part_index i+1; no window for duration 0.
Chunk(speaker, duration, limit) ==
    [i \in 1..((duration + limit - 1) \div limit) |->
        [speaker |-> speaker, part_index |-> i,
         from |-> (i - 1) * limit, to |-> Min(i * limit, duration)]]

\* The file name the chunker's caller formats: speaker_{speaker}_part_{n}.
PartFile(part) ==
    File(<<"speaker", part.speaker, "part", part.part_index>>,
         <<AudioPiece(part.from, part.to)>>)

\* What process_video returns: the parts of every speaker, speaker by speaker.
ProcessVideoResult(durations, limit) ==
    LET parts == Chunk("A", durations["A"], limit) \o Chunk("B", durations["B"], limit)
    IN  [j \in 1..Len(parts) |-> PartFile(parts[j])]

----------------------------------------------------------------------------
(* Request validation *)

Hosts == {<<"www", "youtube", "com">>, <<"youtube", "com">>,
          <<"youtube", "com", "evil", "example">>, <<"vimeo", "com">>}

\* The API key: request.json['api_key'] in app.py, the environment's
\* ASSEMBLY_AI_API_KEY in main.py.  Only its presence and length matter.
Keys == {[present |-> FALSE, len |-> 0],
         [present |-> TRUE, len |-> API_KEY_LENGTH - 1],
         [present |-> TRUE, len |-> API_KEY_LENGTH]}

Requests == [json : BOOLEAN, has_url : BOOLEAN, netloc : Hosts, key : Keys]

\* re.match(r'^(www\.)?youtube\.com', netloc): an optional "www." and then
\* "youtube.com" at the start; whatever follows is accepted.
MatchesYoutube(netloc) ==
    LET rest == IF Len(netloc) >= 1 /\ netloc[1] = "www" THEN Tail(netloc) ELSE netloc
    IN  Len(rest) >= 2 /\ rest[1] = "youtube" /\ rest[2] = "com"

\* main.py: none of the three abort(400) conditions holds.
ValidMain(req) ==
    /\ req.json /\ req.has_url
    /\ MatchesYoutube(req.netloc)
    /\ req.key.present /\ req.key.len > 0

\* app.py: none of the three abort(400) conditions holds.
ValidApp(req) ==
    /\ req.json /\ req.has_url /\ req.key.present
    /\ req.key.len = API_KEY_LENGTH
    /\ MatchesYoutube(req.netloc)

Valid(v, req) == IF v = "main" THEN ValidMain(req) ELSE ValidApp(req)

\* The status a failed validation is answered with.  main.py calls
\* abort(400) inside its try block: the HTTPException is an Exception, the
\* except clause catches it and aborts with 500.  app.py validates before
\* its try block.
RejectStatus(v) == IF v = "main" THEN 500 ELSE 400

----------------------------------------------------------------------------
(* Responses *)

NoResponse == [status |-> 0, files |-> <<>>]

\* abort(code): an error response, which carries no audio.
Abort(code) == [status |-> code, files |-> <<>>]

\* Variant of the ZIP response that refuses an archive with no files.
SendFileNonEmpty(files) ==
    IF files = <<>> THEN Abort(500)
    ELSE [status |-> 200, files |-> [j \in 1..Len(files) |-> files[j].name]]

\* main.py: every tuple is written to the ZIP under its file name and the
\* archive is sent back.
SendFile(files) ==
    [status |-> 200, files |-> [j \in 1..Len(files) |-> files[j].name]]

\* Variant of the display name as the number of parts of the speaker and the
\* number of speakers would decide it.
DisplayNamePerSpeaker(filename, files) ==
    LET speaker_name == filename[2]
        part_number == filename[4]
        ownParts == {j \in 1..Len(files) : files[j].name[2] = speaker_name}
        speakers == {files[j].name[2] : j \in 1..Len(files)}
    IN  IF Cardinality(ownParts) > 1 /\ Cardinality(speakers) > 1
        THEN <<"Speaker", speaker_name, "Part", part_number>>
        ELSE <<"Speaker", speaker_name>>

\* app.py: the file name is split at '_'; field 1 is the speaker, field 3
\* the part number; " Part n" is appended when the batch holds more than
\* one tuple.
DisplayName(filename, files) ==
    LET speaker_name == filename[2]
        part_number == filename[4]
    IN  IF Len(files) > 1
        THEN <<"Speaker", speaker_name, "Part", part_number>>
        ELSE <<"Speaker", speaker_name>>

\* app.py: {'audio_files': [...]}, 200
AudioFilesResponse(files) ==
    [status |-> 200,
     files |-> [j \in 1..Len(files) |-> DisplayName(files[j].name, files)]]

----------------------------------------------------------------------------
(* The transcription service and the poll loop of get_transcript *)

PendingStatuses == {"queued", "processing"}
FinalStatuses == {"completed", "error", "unknown"}
Statuses == PendingStatuses \cup FinalStatuses

\* Variant of the poll decision that fails on every status that is neither
\* completed nor pending.
PollOutcomeStrict(status) ==
    IF status = "completed" THEN "return"
    ELSE IF status \in PendingStatuses THEN "sleep"
    ELSE "raise"

\* Variant of the poll decision that has lost its error branch.
PollOutcomeNoError(status) ==
    IF status = "completed" THEN "return"
    ELSE "sleep"

\* The if / elif / else on transcript_data["status"].
PollOutcome(status) ==
    IF status = "completed" THEN "return"
    ELSE IF status = "error" THEN "raise"
    ELSE "sleep"

----------------------------------------------------------------------------
(* The handlers *)

\* A request arrives at one of the two endpoints; nothing has run yet.
Arrival(requests) ==
    /\ variant \in {"main", "app"}
    /\ request \in requests
    /\ pc = "idle"
    /\ stagesRun = <<>>
    /\ failure = "none"
    /\ audio_len = 0
    /\ svc_status = "none"
    /\ transcript_status = "none"
    /\ transcript = <<>>
    /\ speaker_segments = EmptyDict
    /\ speakers_audio = <<>>
    /\ track_ms = EmptyDict
    /\ max_duration_ms = 0
    /\ response = NoResponse

Init == Arrival(Requests)

\* Variant of the exception handler that logs and carries on.
OnExceptionContinue(stage) ==
    CASE stage = "download" -> "uploading"
      [] stage = "upload" -> "submitting"
      [] stage = "transcribe" -> "segmenting"
      [] stage = "segment" -> "exporting"
      [] stage = "process_video" -> "exporting"
      [] OTHER -> "failed"

\* except Exception: abort(500) -- the handler ends, whatever the stage.
OnException(stage) == "failed"

\* A stage raises: the except clause of the endpoint answers 500.
Raise(stage) ==
    /\ pc' = OnException(stage)
    /\ failure' = stage
    /\ response' = Abort(500)

\* The validation at the head of both handlers.
Validate ==
    /\ pc = "idle"
    /\ IF Valid(variant, request)
       THEN /\ pc' = IF variant = "main" THEN "downloading" ELSE "processing"
            /\ response' = response
       ELSE /\ pc' = "rejected"
            /\ response' = Abort(RejectStatus(variant))
    /\ UNCHANGED <<variant, request, stagesRun, failure, audio_len, svc_status,
                   transcript_status, transcript, speaker_segments,
                   speakers_audio, track_ms, max_duration_ms>>

\* download_youtube_video
Download ==
    /\ pc = "downloading"
    /\ stagesRun' = Append(stagesRun, "download")
    /\ \/ /\ \E len \in AudioLengths : audio_len' = len
          /\ pc' = "uploading"
          /\ UNCHANGED <<failure, response>>
       \/ /\ Raise("download")
          /\ UNCHANGED audio_len
    /\ UNCHANGED <<variant, request, svc_status, transcript_status, transcript, speaker_segments, speakers_audio, track_ms,
                   max_duration_ms>>

\* upload_audio
Upload ==
    /\ pc = "uploading"
    /\ stagesRun' = Append(stagesRun, "upload")
    /\ \/ /\ pc' = "submitting"
          /\ UNCHANGED <<failure, response>>
       \/ Raise("upload")
    /\ UNCHANGED <<variant, request, audio_len, svc_status, transcript_status,
                   transcript, speaker_segments, speakers_audio,
                   track_ms, max_duration_ms>>

\* get_transcript: the POST that creates the transcription job
Submit ==
    /\ pc = "submitting"
    /\ stagesRun' = Append(stagesRun, "transcribe")
    /\ \/ /\ pc' = "polling"
          /\ svc_status' = "queued"
          /\ UNCHANGED <<failure, response>>
       \/ /\ Raise("transcribe")
          /\ UNCHANGED svc_status
    /\ UNCHANGED <<variant, request, audio_len, transcript_status, transcript, speaker_segments, speakers_audio, track_ms,
                   max_duration_ms>>

\* The service works on the job: queued, processing, then a final status.
ServiceStep ==
    /\ pc \in {"polling", "sleeping"}
    /\ \/ /\ svc_status = "queued"
          /\ svc_status' \in {"processing"} \cup FinalStatuses
       \/ /\ svc_status = "processing"
          /\ svc_status' \in FinalStatuses
    /\ UNCHANGED <<variant, request, pc, stagesRun, failure, audio_len,
                   transcript_status, transcript, speaker_segments,
                   speakers_audio, track_ms, max_duration_ms, response>>

\* get_transcript: one iteration of the while True loop, up to the sleep
Poll ==
    /\ pc = "polling"
    /\ \/ /\ transcript_status' = svc_status
          /\ LET outcome == PollOutcome(svc_status)
             IN  \/ /\ outcome = "return"
                    /\ \E t \in Transcripts : transcript' = t
                    /\ pc' = "segmenting"
                    /\ UNCHANGED <<failure, response>>
                 \/ /\ outcome = "raise"
                    /\ Raise("transcribe")
                    /\ UNCHANGED transcript
                 \/ /\ outcome = "sleep"
                    /\ pc' = "sleeping"
                    /\ UNCHANGED <<transcript, failure, response>>
       \/ /\ Raise("transcribe")      \* response.raise_for_status()
          /\ UNCHANGED <<transcript_status, transcript>>
    /\ UNCHANGED <<variant, request, stagesRun, audio_len, svc_status,
                   speaker_segments, speakers_audio, track_ms, max_duration_ms>>

\* time.sleep(5) returns
Sleep ==
    /\ pc = "sleeping"
    /\ pc' = "polling"
    /\ UNCHANGED <<variant, request, stagesRun, failure, audio_len, svc_status,
                   transcript_status, transcript, speaker_segments,
                   speakers_audio, track_ms, max_duration_ms, response>>

\* create_speaker_segments
Segment ==
    /\ pc = "segmenting"
    /\ stagesRun' = Append(stagesRun, "segment")
    /\ \/ /\ speaker_segments' = SpeakerSegments(transcript, audio_len, Len(transcript))
          /\ speakers_audio' = OutputFiles(transcript, audio_len)
          /\ pc' = "exporting"
          /\ UNCHANGED <<failure, response>>
       \/ /\ Raise("segment")
          /\ UNCHANGED <<speaker_segments, speakers_audio>>
    /\ UNCHANGED <<variant, request, audio_len, svc_status, transcript_status,
                   transcript, track_ms, max_duration_ms>>

\* main.py: the ZIP archive and send_file
ExportZip ==
    /\ pc = "exporting" /\ variant = "main"
    /\ stagesRun' = Append(stagesRun, "export")
    /\ \/ /\ response' = SendFile(speakers_audio)
          /\ pc' = "done"
          /\ UNCHANGED failure
       \/ Raise("export")
    /\ UNCHANGED <<variant, request, audio_len, svc_status, transcript_status,
                   transcript, speaker_segments, speakers_audio,
                   track_ms, max_duration_ms>>

\* app.py: the call of process_video
ProcessVideo ==
    /\ pc = "processing"
    /\ stagesRun' = Append(stagesRun, "process_video")
    /\ \/ /\ \E durations \in [Speakers -> TrackDurations], limit \in Limits :
                /\ track_ms' = durations
                /\ max_duration_ms' = limit
                /\ speakers_audio' = ProcessVideoResult(durations, limit)
          /\ pc' = "exporting"
          /\ UNCHANGED <<failure, response>>
       \/ /\ Raise("process_video")
          /\ UNCHANGED <<track_ms, max_duration_ms, speakers_audio>>
    /\ UNCHANGED <<variant, request, audio_len, svc_status, transcript_status,
                   transcript, speaker_segments>>

\* app.py: the loop that encodes and names every tuple, and the 200 answer
ExportBase64 ==
    /\ pc = "exporting" /\ variant = "app"
    /\ stagesRun' = Append(stagesRun, "export")
    /\ \/ /\ response' = AudioFilesResponse(speakers_audio)
          /\ pc' = "done"
          /\ UNCHANGED failure
       \/ Raise("export")
    /\ UNCHANGED <<variant, request, audio_len, svc_status, transcript_status,
                   transcript, speaker_segments, speakers_audio,
                   track_ms, max_duration_ms>>

\* The steps of the request handler
Handler ==
    \/ Validate
    \/ Download
    \/ Upload
    \/ Submit
    \/ Poll
    \/ Sleep
    \/ Segment
    \/ ExportZip
    \/ ProcessVideo
    \/ ExportBase64

Next ==
    \/ Handler
    \/ ServiceStep

Spec == Init /\ [][Next]_vars

\* Every call returns (the handler takes its next step) and the service
\* finishes the job.
\* A request that passes the validation of both endpoints.
WellFormedRequest ==
    [json |-> TRUE, has_url |-> TRUE, netloc |-> <<"www", "youtube", "com">>,
     key |-> [present |-> TRUE, len |-> API_KEY_LENGTH]]

\* The invocations that start: after validation the handlers never read the
\* request again, so one well-formed request stands for all of them.
FairSpec ==
    /\ Arrival({WellFormedRequest})
    /\ [][Next]_vars
    /\ WF_vars(Handler)
    /\ WF_vars(ServiceStep)

----------------------------------------------------------------------------
(* Vocabulary of the properties *)

\* create_speaker_segments has returned (main.py).
Segmented == variant = "main" /\ pc \in {"exporting", "done"}

\* process_video has returned (app.py).
Chunked == variant = "app" /\ pc \in {"exporting", "done"}

UtterancesOf(spk, utts) == SelectSeq(utts, LAMBDA u : u.speaker = spk)

AudioPieces(track) == SelectSeq(track, LAMBDA p : p.kind = "audio")

RECURSIVE DeclaredDuration(_)
DeclaredDuration(us) ==
    IF us = <<>> THEN 0
    ELSE (Head(us).end - Head(us).start) + DeclaredDuration(Tail(us))

Count(x, seq) == Cardinality({i \in 1..Len(seq) : seq[i] = x})

SameBag(s1, s2) ==
    /\ Len(s1) = Len(s2)
    /\ \A i \in 1..Len(s1) : Count(s1[i], s1) = Count(s1[i], s2)

Orderings(seq) ==
    {[i \in 1..Len(seq) |-> seq[f[i]]] :
        f \in {g \in [1..Len(seq) -> 1..Len(seq)] :
                  \A i, j \in 1..Len(seq) : i # j => g[i] # g[j]}}

ExampleA == [speaker |-> "A", start |-> 0, end |-> 2 * PAUSE_DURATION_MS]
ExampleB == [speaker |-> "A", start |-> PAUSE_DURATION_MS, end |-> 3 * PAUSE_DURATION_MS]
ExampleAB == <<ExampleA, ExampleB>>

IsPrefix(s, t) == Len(s) <= Len(t) /\ s = SubSeq(t, 1, Len(s))

StageOrder(v) ==
    IF v = "main" THEN <<"download", "upload", "transcribe", "segment", "export">>
    ELSE <<"process_video", "export">>

----------------------------------------------------------------------------
(* C1 *)

\* C1 as stated: time already extracted for a speaker is never extracted
\* again (the audio pieces of a track do not overlap in source time), and
\* for A=(spk,0,1000), B=(spk,500,1500) the track lasts 1500 ms.
C1_ClampAsStated ==
    Segmented =>
        /\ \A spk \in DOMAIN speaker_segments :
              LET ps == AudioPieces(speaker_segments[spk])
              IN  \A i, j \in 1..Len(ps) :
                      i < j => ps[i].to <= ps[j].from \/ ps[j].to <= ps[i].from
        /\ (transcript = ExampleAB /\ audio_len >= ExampleB.end)
              => Duration(speaker_segments["A"]) = 3 * PAUSE_DURATION_MS

\* C1, amended: no clamp is applied.  The track of a speaker is the slices
\* audio[start:end] of the speaker's utterances in arrival order, each
\* limited only by the audio's length, with a 500 ms pause between
\* neighbours; for A=(spk,0,1000), B=(spk,500,1500) the track lasts 2500 ms.
C1_NoClampPauseJoined ==
    Segmented =>
        /\ \A spk \in Speakers :
              LET us == UtterancesOf(spk, transcript)
              IN  IF us = <<>> THEN spk \notin DOMAIN speaker_segments
                  ELSE /\ spk \in DOMAIN speaker_segments
                       /\ Len(speaker_segments[spk]) = 2 * Len(us) - 1
                       /\ \A i \in 1..Len(us) :
                              speaker_segments[spk][2 * i - 1] =
                                  AudioPiece(Min(us[i].start, audio_len),
                                             Min(us[i].end, audio_len))
                       /\ \A i \in 1..(Len(us) - 1) :
                              speaker_segments[spk][2 * i] = Silent(PAUSE_DURATION_MS)
        /\ (transcript = ExampleAB /\ audio_len >= ExampleB.end)
              => Duration(speaker_segments["A"]) = 5 * PAUSE_DURATION_MS

C1_Witness ==
    /\ Segmented
    /\ transcript = ExampleAB
    /\ audio_len >= ExampleB.end
    /\ Duration(speaker_segments["A"]) = 5 * PAUSE_DURATION_MS

----------------------------------------------------------------------------
(* C2 *)

\* C2 as stated: the duration of a speaker's track is at most the sum of
\* end - start over the speaker's utterances.
C2_NoGrowthAsStated ==
    Segmented =>
        \A spk \in DOMAIN speaker_segments :
            Duration(speaker_segments[spk])
                <= DeclaredDuration(UtterancesOf(spk, transcript))

\* C2, amended: the duration of a speaker's track is at most the sum of
\* end - start over the speaker's n utterances plus (n - 1) pauses of
\* 500 ms; the audio in it, pauses left out, is at most that sum.
C2_GrowthOnlyByPauses ==
    Segmented =>
        \A spk \in DOMAIN speaker_segments :
            LET us == UtterancesOf(spk, transcript)
            IN  /\ Duration(speaker_segments[spk])
                      <= DeclaredDuration(us) + PAUSE_DURATION_MS * (Len(us) - 1)
                /\ Duration(AudioPieces(speaker_segments[spk])) <= DeclaredDuration(us)

C2_Witness ==
    /\ Segmented
    /\ \E spk \in DOMAIN speaker_segments :
          LET us == UtterancesOf(spk, transcript)
          IN  /\ Len(us) >= 2
              /\ Duration(speaker_segments[spk])
                    = DeclaredDuration(us) + PAUSE_DURATION_MS * (Len(us) - 1)

----------------------------------------------------------------------------
(* C3 *)

\* C3 as stated: every ordering of the same utterances yields, for each
\* speaker, the same sequence of extracted source ranges.
C3_OrderInvariantAsStated ==
    Segmented =>
        \A p \in Orderings(transcript) :
            LET other == SpeakerSegments(p, audio_len, Len(p))
            IN  /\ DOMAIN other = DOMAIN speaker_segments
                /\ \A spk \in DOMAIN other :
                      AudioPieces(other[spk]) = AudioPieces(speaker_segments[spk])

\* C3, amended: utterances are processed in arrival order, not sorted.
\* Every ordering of the same utterances yields, for each speaker, the same
\* extracted source ranges as a multiset and the same track duration; the
\* order of the ranges within the track is the arrival order.
C3_OrderOnlyPermutesPieces ==
    Segmented =>
        \A p \in Orderings(transcript) :
            LET other == SpeakerSegments(p, audio_len, Len(p))
            IN  /\ DOMAIN other = DOMAIN speaker_segments
                /\ \A spk \in DOMAIN other :
                      /\ SameBag(other[spk], speaker_segments[spk])
                      /\ Duration(other[spk]) = Duration(speaker_segments[spk])
                      /\ LET us == UtterancesOf(spk, p)
                         IN  AudioPieces(other[spk]) =
                                 [i \in 1..Len(us) |->
                                     AudioPiece(Min(us[i].start, audio_len),
                                                Min(us[i].end, audio_len))]

C3_Witness ==
    /\ Segmented
    /\ \E p \in Orderings(transcript) :
          SpeakerSegments(p, audio_len, Len(p)) # speaker_segments

----------------------------------------------------------------------------
(* C4 *)

\* C4 as stated: leaving a poll, completed proceeds, every other
\* non-pending status fails, and only a pending status sleeps for another poll.
C4_PollAsStated ==
    [][(pc = "polling" /\ pc' # "polling") =>
          /\ transcript_status' = "completed" => pc' = "segmenting"
          /\ (/\ transcript_status' # transcript_status
              /\ transcript_status' \notin PendingStatuses \cup {"completed"})
                => pc' = "failed"
          /\ pc' = "sleeping" => transcript_status' \in PendingStatuses]_vars

\* C4, amended: leaving a poll, completed proceeds, error fails, and every
\* other status, pending or not, sleeps for another poll; besides the
\* error status only a failed request ends the loop in failure.
C4_PollLoop ==
    [][(pc = "polling" /\ pc' # "polling") =>
          /\ pc' \in {"segmenting", "failed", "sleeping"}
          /\ transcript_status' = "completed" => pc' = "segmenting"
          /\ transcript_status' = "error" => pc' = "failed"
          /\ (/\ transcript_status' # transcript_status
              /\ transcript_status' \notin {"completed", "error"})
                => pc' = "sleeping"
          /\ pc' = "sleeping" => transcript_status' \notin {"completed", "error"}
          /\ pc' = "segmenting" => transcript_status' = "completed"]_vars

C4_Witness == pc = "sleeping" /\ transcript_status = "unknown"

----------------------------------------------------------------------------
(* C5 *)

\* C5: the stages run in their fixed order; once a stage has failed no
\* later stage runs, the response is a single error without audio, and
\* audio is returned only when every stage has run.
C5_SequentialNoPartial ==
    /\ IsPrefix(stagesRun, StageOrder(variant))
    /\ failure # "none" =>
          /\ pc = "failed"
          /\ stagesRun # <<>> /\ stagesRun[Len(stagesRun)] = failure
          /\ response = Abort(500)
    /\ pc = "failed" => failure # "none"
    /\ response.files # <<>> =>
          pc = "done" /\ failure = "none" /\ stagesRun = StageOrder(variant)

C5_Witness ==
    /\ pc = "failed"
    /\ failure = "transcribe"
    /\ transcript_status = "error"
    /\ stagesRun = <<"download", "upload", "transcribe">>
    /\ response = Abort(500)

----------------------------------------------------------------------------
(* C6 *)

\* C6: a request that fails validation is answered with 400 before any stage
\* starts, and 500 is the answer only when a stage of the pipeline failed.
C6_Rejected400 ==
    /\ (pc # "idle" /\ ~Valid(variant, request)) =>
          response.status = 400 /\ stagesRun = <<>>
    /\ response.status = 500 => failure # "none"

----------------------------------------------------------------------------
(* C7 *)

\* C7 as stated: a transcript completed with zero utterances never ends in a
\* successful response.
C7_EmptyFailsAsStated ==
    (variant = "main" /\ transcript_status = "completed" /\ transcript = <<>>)
        => pc # "done" /\ response.status # 200

\* C7, amended: in main.py a transcript completed with zero utterances
\* yields no output files, and when the export succeeds the response is a
\* successful 200 carrying an archive with no files.
C7_EmptyIsEmptySuccess ==
    (Segmented /\ transcript_status = "completed" /\ transcript = <<>>) =>
        /\ speaker_segments = EmptyDict
        /\ speakers_audio = <<>>
        /\ pc = "done" => response = [status |-> 200, files |-> <<>>]

C7_Witness ==
    /\ variant = "main" /\ pc = "done"
    /\ transcript_status = "completed" /\ transcript = <<>>
    /\ response.status = 200

----------------------------------------------------------------------------
(* C8 *)

\* The parts process_video returned for one speaker, in batch order.
PartsOf(spk) == SelectSeq(speakers_audio, LAMBDA f : f.name[2] = spk)

\* C8: the parts of a track of duration D under limit M are numbered
\* 1, 2, 3, ... in order; part i+1 covers [i*M, min((i+1)*M, D)); every part
\* lasts more than 0 and at most M; the parts' durations sum to D; D = 0
\* gives no part; D = 700000, M = 300000 gives 300000, 300000, 100000.
C8_ChunkBoundaries ==
    Chunked =>
        \A spk \in Speakers :
            LET parts == PartsOf(spk)
                D == track_ms[spk]
                M == max_duration_ms
                durations == [i \in 1..Len(parts) |-> Duration(parts[i].audio)]
            IN  /\ \A i \in 1..Len(parts) :
                      /\ parts[i].name = <<"speaker", spk, "part", i>>
                      /\ parts[i].audio =
                            <<AudioPiece((i - 1) * M, IF i * M <= D THEN i * M ELSE D)>>
                      /\ durations[i] > 0 /\ durations[i] <= M
                /\ \A i \in 1..(Len(parts) - 1) :
                      parts[i].audio[1].to = parts[i + 1].audio[1].from
                /\ SumSeq(durations) = D
                /\ D = 0 => parts = <<>>
                /\ (D = 7 * ChunkUnit /\ M = DEFAULT_MAX_DURATION_MS) =>
                      durations = <<DEFAULT_MAX_DURATION_MS, DEFAULT_MAX_DURATION_MS,
                                    ChunkUnit>>

C8_Witness ==
    /\ Chunked
    /\ track_ms["A"] = 7 * ChunkUnit
    /\ max_duration_ms = DEFAULT_MAX_DURATION_MS
    /\ Len(PartsOf("A")) = 3
    /\ track_ms["B"] = 0 /\ PartsOf("B") = <<>>

----------------------------------------------------------------------------
(* C9 *)

HasPartSuffix(name) == Len(name) = 4 /\ name[3] = "Part"

BatchSpeakers == {speakers_audio[j].name[2] : j \in 1..Len(speakers_audio)}

Answered == variant = "app" /\ pc = "done"

\* C9 as stated: the name is "Speaker {speaker}", and " Part {n}" is appended
\* exactly when the clip's speaker has more than one part and the batch has
\* more than one speaker.
C9_SuffixAsStated ==
    Answered =>
        /\ Len(response.files) = Len(speakers_audio)
        /\ \A j \in 1..Len(speakers_audio) :
              LET spk == speakers_audio[j].name[2]
              IN  /\ response.files[j][1] = "Speaker" /\ response.files[j][2] = spk
                  /\ HasPartSuffix(response.files[j])
                        <=> (Len(PartsOf(spk)) > 1 /\ Cardinality(BatchSpeakers) > 1)

\* C9, amended: the name is "Speaker {speaker}", and " Part {n}", n the
\* clip's part number, is appended exactly when the batch holds more than
\* one clip in total, whatever their speakers; a batch of a single clip has
\* no Part suffix.
C9_SuffixByBatchSize ==
    Answered =>
        /\ Len(response.files) = Len(speakers_audio)
        /\ \A j \in 1..Len(speakers_audio) :
              LET spk == speakers_audio[j].name[2]
                  n == speakers_audio[j].name[4]
              IN  IF Len(speakers_audio) > 1
                  THEN response.files[j] = <<"Speaker", spk, "Part", n>>
                  ELSE response.files[j] = <<"Speaker", spk>>

\* Two speakers with one part each: both names carry " Part 1".
C9_Witness ==
    /\ Answered
    /\ Len(PartsOf("A")) = 1 /\ Len(PartsOf("B")) = 1
    /\ \A j \in 1..Len(response.files) : HasPartSuffix(response.files[j])

----------------------------------------------------------------------------
(* C10 *)

Started == pc \notin {"idle", "rejected"}
Finished == pc \in {"done", "failed"}
Transcribing == pc \in {"polling", "sleeping"}

\* C10 as stated: when every call returns and the service reaches a status
\* other than pending, every started invocation reaches Done or Failed.
C10_TerminatesAsStated == Started ~> Finished

\* C10, amended: when every call returns and the service reaches the status
\* completed or error, every started invocation reaches Done or Failed; on
\* any other final status the loop keeps polling.  The loop has no attempt
\* limit: Transcribing is left only by a poll, to Segmenting or to Failed.
C10_Terminates ==
    /\ Started ~> (Finished \/ svc_status \in FinalStatuses \ {"completed", "error"})
    /\ [][(Transcribing /\ ~Transcribing') =>
             (pc = "polling" /\ pc' \in {"segmenting", "failed"})]_vars

C10_Witness ==
    /\ variant = "main" /\ pc = "done"
    /\ transcript_status = "completed"
    /\ stagesRun = StageOrder("main")

====
